---- MODULE Spec2Model ----
(***************************************************************************)
(* Model of perf_test_runner.py: run the test tool, extract the measured   *)
(* averages from its output with one regular expression, and append a row  *)
(* to perf_results.csv.                                                     *)
(*                                                                         *)
(* Text is a sequence of one-character strings, so that the pattern of     *)
(* parse_results is matched character by character.  A CSV file is the     *)
(* sequence of its records, a record the sequence of its fields.           *)
(***************************************************************************)
EXTENDS Integers, Sequences, FiniteSets, TLC

VARIABLES pc, lines, out, results, now, sha, row, headers,
          file, before, printed, w, log, lookup

vars == <<pc, lines, out, results, now, sha, row, headers,
          file, before, printed, w, log, lookup>>

(***************************************************************************)
(* Bounds of the model.                                                    *)
(***************************************************************************)
MaxLines == 2
MaxRunLines == 3
MaxCalls == 2

(***************************************************************************)
(* The pattern of parse_results (line 18).                                 *)
(***************************************************************************)
WordChars == {"a","b","c","d","e","f","g","h","i","j","k","l","m","n","o","p","q","r","s","t","u","v","w","x","y","z","A","B","C","D","E","F","G","H","I","J","K","L","M","N","O","P","Q","R","S","T","U","V","W","X","Y","Z","0","1","2","3","4","5","6","7","8","9","_"}

Digits == <<"0","1","2","3","4","5","6","7","8","9">>

NumChars == {Digits[i] : i \in 1..10} \cup {"."}

PRE == <<"T","e","s","t"," ","C","a","s","e"," ","'","-","[">>

\* the pattern without the quote after the closing bracket
MIDNoQuote == <<"]"," ","m","e","a","s","u","r","e","d"," ","[","T","i","m","e",","," ","s","e","c","o","n","d","s","]"," ","a","v","e","r","a","g","e",":"," ">>

MID == <<"]","'"," ","m","e","a","s","u","r","e","d"," ","[","T","i","m","e",","," ","s","e","c","o","n","d","s","]"," ","a","v","e","r","a","g","e",":"," ">>

\* lit occurs in text at position i
LitAt(text, i, lit) ==
    /\ i + Len(lit) - 1 <= Len(text)
    /\ \A k \in 1..Len(lit) : text[i + k - 1] = lit[k]

\* length of the longest run of characters of class cls starting at i
\* (a greedy cls* ; the character after each group of the pattern is not
\* in the group's class, so only the longest run can match)
RECURSIVE RunLen(_, _, _)
RunLen(text, i, cls) ==
    IF i <= Len(text) /\ text[i] \in cls
    THEN 1 + RunLen(text, i + 1, cls)
    ELSE 0

\* the match of the pattern that starts exactly at position i, if any
MatchAt(text, i) ==
    LET a  == i + Len(PRE)
        n1 == RunLen(text, a, WordChars)
        b  == a + n1
        c  == b + 1
        n2 == RunLen(text, c, WordChars)
        d  == c + n2
        e  == d + 1
        n3 == RunLen(text, e, WordChars)
        f  == e + n3
        g  == f + Len(MID)
        n4 == RunLen(text, g, NumChars)
        h  == g + n4
    IN  IF /\ LitAt(text, i, PRE)
           /\ n1 > 0
           /\ LitAt(text, b, <<".">>)
           /\ n2 > 0
           /\ LitAt(text, d, <<" ">>)
           /\ n3 > 0
           /\ LitAt(text, f, MID)
           /\ n4 > 0
           /\ LitAt(text, h, <<",">>)
        THEN [ok |-> TRUE, end |-> h,
              classname |-> SubSeq(text, c, d - 1),
              testname  |-> SubSeq(text, e, f - 1),
              average   |-> SubSeq(text, g, h - 1)]
        ELSE [ok |-> FALSE, end |-> i,
              classname |-> <<>>, testname |-> <<>>, average |-> <<>>]

(***************************************************************************)
(* float(average) (line 23): a decimal with at most one point and at least *)
(* one digit converts; anything else raises ValueError.  The value is kept *)
(* as m * 10^-e with trailing zeros of the fraction removed, so that       *)
(* "3", "3." and "3.0" are one value.  Binary rounding is not modelled.    *)
(***************************************************************************)
DigitVal(ch) == (CHOOSE i \in 1..10 : Digits[i] = ch) - 1

RECURSIVE DecVal(_)
DecVal(ds) ==
    IF ds = <<>> THEN 0
    ELSE 10 * DecVal(SubSeq(ds, 1, Len(ds) - 1)) + DigitVal(ds[Len(ds)])

RECURSIVE Norm(_, _)
Norm(m, e) ==
    IF e > 0 /\ m % 10 = 0 THEN Norm(m \div 10, e - 1)
    ELSE [t |-> "float", m |-> m, e |-> e]

IsDot(ch) == ch = "."
IsDigit(ch) == ch # "."

FloatOk(s) ==
    /\ Len(SelectSeq(s, IsDot)) <= 1
    /\ Len(SelectSeq(s, IsDigit)) >= 1

Float(s) ==
    LET p == IF \E i \in 1..Len(s) : s[i] = "."
             THEN CHOOSE i \in 1..Len(s) : s[i] = "."
             ELSE Len(s)
    IN  Norm(DecVal(SelectSeq(s, IsDigit)), Len(s) - p)

(***************************************************************************)
(* dict: a sequence of key/value pairs in insertion order.                 *)
(***************************************************************************)
Keys(d) == {d[i].k : i \in 1..Len(d)}

KeyList(d) == [i \in 1..Len(d) |-> d[i].k]

Get(d, k, default) ==
    IF k \in Keys(d)
    THEN d[CHOOSE i \in 1..Len(d) : d[i].k = k].v
    ELSE default

\* d[k] = v that moves an existing key to the end
DictSetMoveToEnd(d, k, v) ==
    Append(SelectSeq(d, LAMBDA pair : pair.k # k), [k |-> k, v |-> v])

\* d[k] = v : an existing key keeps its position
DictSet(d, k, v) ==
    IF k \in Keys(d)
    THEN [i \in 1..Len(d) |-> IF d[i].k = k THEN [k |-> k, v |-> v] ELSE d[i]]
    ELSE Append(d, [k |-> k, v |-> v])

(***************************************************************************)
(* parse_results (lines 16-24): re.finditer scans left to right for        *)
(* non-overlapping matches; each match stores float(average) under         *)
(* "<classname>.<testname>".  A ValueError of float leaves the function.   *)
(***************************************************************************)
\* the start positions, from i on, where the pattern matches
MatchStarts(text, i) == {j \in i..Len(text) : MatchAt(text, j).ok}

RECURSIVE ParseFrom(_, _, _)
ParseFrom(text, i, acc) ==
    LET starts == MatchStarts(text, i)
    IN  IF starts = {} THEN [raised |-> FALSE, results |-> acc]
        ELSE LET j  == CHOOSE x \in starts : \A y \in starts : x <= y
                 mt == MatchAt(text, j)
             IN  IF ~FloatOk(mt.average)
                 THEN [raised |-> TRUE, results |-> acc]
                 ELSE ParseFrom(text, mt.end + 1,
                        DictSet(acc, mt.classname \o <<".">> \o mt.testname,
                                Float(mt.average)))

parse_results(text) == ParseFrom(text, 1, <<>>)

(***************************************************************************)
(* Output of the test tool (run_tests, lines 6-14): a sequence of lines.   *)
(* A line is a measurement report of a class, a method and a number text,  *)
(* a "passed" line, or one of the two lines of scenario A.                 *)
(***************************************************************************)
LineRest == <<" ","3",".","3","%","\n">>

NoiseLine == <<"T","e","s","t"," ","C","a","s","e"," ","'","-","[","T",".","M"," ","a","]","'"," ","p","a","s","s","e","d"," ","(","0",".","3"," ","s","e","c","o","n","d","s",")",".","\n">>

ScenarioAPrinted == <<"T","e","s","t"," ","C","a","s","e"," ","'","-","[","T","e","n","d","r","i","l","T","r","e","e","T","e","s","t","s",".","t","e","s","t","I","n","s","e","r","t","]"," ","m","e","a","s","u","r","e","d"," ","[","T","i","m","e",","," ","s","e","c","o","n","d","s","]"," ","a","v","e","r","a","g","e",":"," ","0",".","0","0","3",",","\n">>

ScenarioAWellFormed == <<"T","e","s","t"," ","C","a","s","e"," ","'","-","[","T","e","n","d","r","i","l","T","r","e","e","T","e","s","t","s",".","M","e","a","s","u","r","e","m","e","n","t","s"," ","t","e","s","t","I","n","s","e","r","t","]","'"," ","m","e","a","s","u","r","e","d"," ","[","T","i","m","e",","," ","s","e","c","o","n","d","s","]"," ","a","v","e","r","a","g","e",":"," ","0",".","0","0","3",",","\n">>

ReportLine(cls, meth, num) ==
    PRE \o <<"T", ".">> \o cls \o <<" ">> \o meth \o MID \o num \o <<",">> \o LineRest

RenderLine(l) ==
    CASE l.kind = "report"  -> ReportLine(l.cls, l.meth, l.num)
      [] l.kind = "noise"   -> NoiseLine
      [] l.kind = "printed" -> ScenarioAPrinted
      [] l.kind = "well"    -> ScenarioAWellFormed

RECURSIVE Render(_)
Render(ls) ==
    IF ls = <<>> THEN <<>> ELSE RenderLine(Head(ls)) \o Render(Tail(ls))

SeqsUpTo(S, n) == UNION {[1..k -> S] : k \in 0..n}

Line(kind, cls, meth, num) ==
    [kind |-> kind, cls |-> cls, meth |-> meth, num |-> num]

Tests == {<<<<"M", "1">>, <<"a", "_", "b">>>>, <<<<"N">>, <<"t">>>>}

\* texts the number group can capture: decimals, and texts that are none
NumStrs == {<<"3">>, <<"3", ".">>, <<".", "3">>, <<"0", ".", "0", "3", "0">>,
            <<".">>, <<"3", ".", "3", ".", "3">>}

OtherLines == {Line("noise", <<>>, <<>>, <<>>),
               Line("printed", <<>>, <<>>, <<>>),
               Line("well", <<>>, <<>>, <<>>)}

\* the outputs given to parse_results alone
Segments ==
    {Line("report", t[1], t[2], n) : t \in Tests, n \in NumStrs}
        \cup OtherLines

\* the outputs of the test tool in a run of main
RunNums == {<<"3">>, <<".">>}

RunSegments ==
    {Line("report", t[1], t[2], n) : t \in Tests, n \in RunNums}
        \cup {Line("noise", <<>>, <<>>, <<>>)}

(***************************************************************************)
(* Values of a row: str, float or None, and the field csv writes for each  *)
(* (str(value), the empty field for None).                                  *)
(***************************************************************************)
Str(s) == [t |-> "str", s |-> s]

None == [t |-> "none"]

RECURSIVE Pow10(_)
Pow10(e) == IF e = 0 THEN 1 ELSE 10 * Pow10(e - 1)

RECURSIVE ToDigits(_)
ToDigits(n) ==
    IF n < 10 THEN <<Digits[n + 1]>>
    ELSE ToDigits(n \div 10) \o <<Digits[(n % 10) + 1]>>

RECURSIVE PadDigits(_, _)
PadDigits(n, width) ==
    IF width = 0 THEN <<>>
    ELSE PadDigits(n \div 10, width - 1) \o <<Digits[(n % 10) + 1]>>

\* repr of a float in positional notation (1e-4 <= value < 1e16)
Repr(v) ==
    ToDigits(v.m \div Pow10(v.e)) \o <<".">> \o
        (IF v.e = 0 THEN <<"0">> ELSE PadDigits(v.m % Pow10(v.e), v.e))

Field(v) ==
    CASE v.t = "str"   -> v.s
      [] v.t = "float" -> Repr(v)
      [] v.t = "none"  -> <<>>

(***************************************************************************)
(* csv.DictWriter(f, fieldnames=headers) (lines 41-44), with its defaults  *)
(* restval='' and extrasaction='raise'.                                    *)
(***************************************************************************)
Range(s) == {s[i] : i \in 1..Len(s)}

\* extrasaction='ignore'
ExtraKeysIgnored(r, fieldnames) == FALSE

\* writerow raises ValueError: the row has a key that is no field name
ExtraKeys(r, fieldnames) == Keys(r) \ Range(fieldnames) # {}

\* the fields in the order of the row's keys
DataRowInRowOrder(r, fieldnames) == [i \in 1..Len(r) |-> Field(r[i].v)]

DataRow(r, fieldnames) ==
    [i \in 1..Len(fieldnames) |-> Field(Get(r, fieldnames[i], Str(<<>>)))]

HeaderRow(fieldnames) ==
    [i \in 1..Len(fieldnames) |-> Field(Str(fieldnames[i]))]

\* a header with every row
HeaderWrittenAlways(file_exists, f) == TRUE

\* a header whenever the file is empty at the time of the write
HeaderWrittenIfEmpty(file_exists, f) == f.recs = <<>>

\* "if not file_exists: writer.writeheader()"
HeaderWritten(file_exists, f) == ~file_exists

\* the records one call leaves in the file when it is closed
Written(file_exists, f, r, fieldnames) ==
    (IF HeaderWritten(file_exists, f) THEN <<HeaderRow(fieldnames)>> ELSE <<>>)
    \o (IF ExtraKeys(r, fieldnames) THEN <<>> ELSE <<DataRow(r, fieldnames)>>)

Absent == [exists |-> FALSE, recs |-> <<>>]

Procs == {1, 2}

IdleW == [pc |-> "idle", row |-> <<>>, headers |-> <<>>, file_exists |-> FALSE]

CallW(r, hs) ==
    [pc |-> "check", row |-> r, headers |-> hs, file_exists |-> FALSE]

(***************************************************************************)
(* write_csv_row (lines 32-44) as three steps of a process p:              *)
(*   check  lines 33-38  open for reading decides file_exists              *)
(*   open   line 40      open in append mode creates a missing file        *)
(*   write  lines 41-44  header and row reach the file when it is closed   *)
(***************************************************************************)
Check(p) ==
    /\ w[p].pc = "check"
    /\ w' = [w EXCEPT ![p].file_exists = file.exists, ![p].pc = "open"]
    /\ UNCHANGED <<pc, lines, out, results, now, sha, row, headers,
                   file, before, printed, log, lookup>>

Open(p) ==
    /\ w[p].pc = "open"
    /\ file' = [file EXCEPT !.exists = TRUE]
    /\ w' = [w EXCEPT ![p].pc = "write"]
    /\ UNCHANGED <<pc, lines, out, results, now, sha, row, headers,
                   before, printed, log, lookup>>

WriteRows(p) ==
    /\ w[p].pc = "write"
    /\ file' = [file EXCEPT !.recs =
                  @ \o Written(w[p].file_exists, file, w[p].row, w[p].headers)]
    /\ w' = [w EXCEPT ![p].pc =
                  IF ExtraKeys(w[p].row, w[p].headers)
                  THEN "raised" ELSE "returned"]
    /\ UNCHANGED <<pc, lines, out, results, now, sha, row, headers,
                   before, printed, log, lookup>>

CheckStep == \E p \in Procs : Check(p)

OpenStep == \E p \in Procs : Open(p)

WriteStep == \E p \in Procs : WriteRows(p)

(***************************************************************************)
(* get_git_sha (lines 26-30): the stripped output of git rev-parse HEAD,   *)
(* or "unknown" when check_output or decode raises an Exception.           *)
(***************************************************************************)
unknown == <<"u","n","k","n","o","w","n">>

Whitespace == {" ", "\n"}

RECURSIVE Strip(_)
Strip(s) ==
    IF s = <<>> THEN s
    ELSE IF Head(s) \in Whitespace THEN Strip(Tail(s))
    ELSE IF s[Len(s)] \in Whitespace THEN Strip(SubSeq(s, 1, Len(s) - 1))
    ELSE s

\* what the lookup command does: prints a hash, is not installed, exits
\* non-zero (not a repository), or prints bytes that are not UTF-8
LookupOutcomes ==
    {[kind |-> "ok", stdout |-> <<"c", "0", "f", "e", "\n">>],
     [kind |-> "no_git", stdout |-> <<>>],
     [kind |-> "exit_nonzero", stdout |-> <<>>],
     [kind |-> "bad_utf8", stdout |-> <<"\n">>]}

\* the lookup without its except clause
get_git_sha_uncaught(o) == Strip(o.stdout)

get_git_sha(o) == IF o.kind = "ok" THEN Strip(o.stdout) ELSE unknown

(***************************************************************************)
(* main (lines 46-57).                                                     *)
(***************************************************************************)
KeyDate == <<"d","a","t","e">>

KeyGitSha == <<"g","i","t","_","s","h","a">>

Timestamps == {<<"t", "1">>}

\* row.update(results)
RECURSIVE Update(_, _)
Update(d, other) ==
    IF other = <<>> THEN d
    ELSE Update(DictSet(d, Head(other).k, Head(other).v), Tail(other))

\* lines 51-52
AssembleRow(t, g, res) ==
    Update(<<[k |-> KeyDate, v |-> Str(t)], [k |-> KeyGitSha, v |-> Str(g)]>>,
           res)

\* line 55
AssembleHeaders(res) == <<KeyDate, KeyGitSha>> \o KeyList(res)

RunTests ==
    /\ pc = "run_tests"
    /\ \E ls \in SeqsUpTo(RunSegments, MaxRunLines) :
         /\ lines' = ls
         /\ out' = Render(ls)
    /\ pc' = "parse"
    /\ UNCHANGED <<results, now, sha, row, headers, file, before, printed,
                   w, log, lookup>>

\* subprocess.run raises when the test tool cannot be launched
LaunchFails ==
    /\ pc = "run_tests"
    /\ pc' = "aborted"
    /\ UNCHANGED <<lines, out, results, now, sha, row, headers, file, before,
                   printed, w, log, lookup>>

ParseResults ==
    /\ pc = "parse"
    /\ ~parse_results(out).raised
    /\ results' = parse_results(out).results
    /\ pc' = "now"
    /\ UNCHANGED <<lines, out, now, sha, row, headers, file, before, printed,
                   w, log, lookup>>

\* a ValueError of float that main swallows
ParseRaisesCaught ==
    /\ pc = "parse"
    /\ parse_results(out).raised
    /\ results' = <<>>
    /\ pc' = "now"
    /\ UNCHANGED <<lines, out, now, sha, row, headers, file, before, printed,
                   w, log, lookup>>

\* the ValueError of float is not caught in main
ParseRaises ==
    /\ pc = "parse"
    /\ parse_results(out).raised
    /\ pc' = "aborted"
    /\ UNCHANGED <<lines, out, results, now, sha, row, headers, file, before,
                   printed, w, log, lookup>>

Now ==
    /\ pc = "now"
    /\ \E t \in Timestamps : now' = t
    /\ pc' = "git_sha"
    /\ UNCHANGED <<lines, out, results, sha, row, headers, file, before,
                   printed, w, log, lookup>>

GetGitSha ==
    /\ pc = "git_sha"
    /\ \E o \in LookupOutcomes :
         /\ lookup' = o.kind
         /\ sha' = get_git_sha(o)
    /\ pc' = "assemble"
    /\ UNCHANGED <<lines, out, results, now, row, headers, file, before,
                   printed, w, log>>

Assemble ==
    /\ pc = "assemble"
    /\ row' = AssembleRow(now, sha, results)
    /\ headers' = AssembleHeaders(results)
    /\ pc' = "write"
    /\ UNCHANGED <<lines, out, results, now, sha, file, before, printed,
                   w, log, lookup>>

CallWrite ==
    /\ pc = "write"
    /\ w' = [w EXCEPT ![1] = CallW(row, headers)]
    /\ pc' = "writing"
    /\ UNCHANGED <<lines, out, results, now, sha, row, headers, file, before,
                   printed, log, lookup>>

\* write_csv_row returns to main, or its ValueError leaves main
Return ==
    /\ pc = "writing"
    /\ w[1].pc \in {"returned", "raised"}
    /\ pc' = IF w[1].pc = "returned" THEN "print" ELSE "aborted"
    /\ UNCHANGED <<lines, out, results, now, sha, row, headers, file, before,
                   printed, w, log, lookup>>

PrintRow ==
    /\ pc = "print"
    /\ printed' = Append(printed, row)
    /\ pc' = "done"
    /\ UNCHANGED <<lines, out, results, now, sha, row, headers, file, before,
                   w, log, lookup>>

\* perf_results.csv before the run: missing, or left by an earlier run in
\* which the lookup failed and no measurement was found
EarlierFile ==
    [exists |-> TRUE,
     recs |-> <<<<KeyDate, KeyGitSha>>, <<<<"t", "0">>, unknown>>>>]

Init ==
    /\ pc = "run_tests"
    /\ lines = <<>>
    /\ out = <<>>
    /\ results = <<>>
    /\ now = <<>>
    /\ sha = <<>>
    /\ row = <<>>
    /\ headers = <<>>
    /\ file \in {Absent, EarlierFile}
    /\ before = file
    /\ printed = <<>>
    /\ w = [p \in Procs |-> IdleW]
    /\ log = <<>>
    /\ lookup = "none"

Next ==
    \/ RunTests
    \/ LaunchFails
    \/ ParseResults
    \/ ParseRaises
    \/ Now
    \/ GetGitSha
    \/ Assemble
    \/ CallWrite
    \/ CheckStep
    \/ OpenStep
    \/ WriteStep
    \/ Return
    \/ PrintRow

Spec == Init /\ [][Next]_vars

(***************************************************************************)
(* parse_results alone, on every output of up to MaxLines lines.           *)
(***************************************************************************)
InitParse ==
    /\ pc = "parse"
    /\ lines \in SeqsUpTo(Segments, MaxLines)
    /\ out = Render(lines)
    /\ results = <<>>
    /\ now = <<>>
    /\ sha = <<>>
    /\ row = <<>>
    /\ headers = <<>>
    /\ file = Absent
    /\ before = file
    /\ printed = <<>>
    /\ w = [p \in Procs |-> IdleW]
    /\ log = <<>>
    /\ lookup = "none"

NextParse == ParseResults \/ ParseRaises

SpecParse == InitParse /\ [][NextParse]_vars

(***************************************************************************)
(* write_csv_row alone: up to MaxCalls calls, one after the other, with    *)
(* any row over two keys and header lists of up to two names.  log is the  *)
(* list of the calls made.                                                 *)
(***************************************************************************)
WKeyList == <<<<"a">>, <<"b">>>>

WVals == {Str(<<"v">>), Norm(3, 1)}

NoKey == [t |-> "absent"]

HasKey(pair) == pair.v.t # "absent"

WRows ==
    {SelectSeq([i \in 1..Len(WKeyList) |-> [k |-> WKeyList[i], v |-> f[i]]],
               HasKey) :
        f \in [1..Len(WKeyList) -> WVals \cup {NoKey}]}

HeaderLists == {<<>>, <<<<"a">>>>, <<<<"a">>, <<"b">>>>, <<<<"b">>, <<"a">>>>}

CallWriter ==
    /\ pc = "caller"
    /\ w[1].pc \in {"idle", "returned", "raised"}
    /\ Len(log) < MaxCalls
    /\ \E r \in WRows, hs \in HeaderLists :
         /\ w' = [w EXCEPT ![1] = CallW(r, hs)]
         /\ log' = Append(log, [row |-> r, headers |-> hs])
    /\ UNCHANGED <<pc, lines, out, results, now, sha, row, headers, file,
                   before, printed, lookup>>

InitWriter ==
    /\ pc = "caller"
    /\ lines = <<>>
    /\ out = <<>>
    /\ results = <<>>
    /\ now = <<>>
    /\ sha = <<>>
    /\ row = <<>>
    /\ headers = <<>>
    /\ file \in {Absent, [exists |-> TRUE, recs |-> <<>>]}
    /\ before = file
    /\ printed = <<>>
    /\ w = [p \in Procs |-> IdleW]
    /\ log = <<>>
    /\ lookup = "none"

NextWriter == CallWriter \/ CheckStep \/ OpenStep \/ WriteStep

SpecWriter == InitWriter /\ [][NextWriter]_vars

(***************************************************************************)
(* Two invocations of write_csv_row on one missing path, interleaved.      *)
(***************************************************************************)
InitRace ==
    /\ pc = "race"
    /\ lines = <<>>
    /\ out = <<>>
    /\ results = <<>>
    /\ now = <<>>
    /\ sha = <<>>
    /\ row = <<>>
    /\ headers = <<>>
    /\ file = Absent
    /\ before = file
    /\ printed = <<>>
    /\ w \in [Procs -> {CallW(r, hs) : r \in WRows, hs \in HeaderLists}]
    /\ log = <<>>
    /\ lookup = "none"

NextRace == CheckStep \/ OpenStep \/ WriteStep

SpecRace == InitRace /\ [][NextRace]_vars

(***************************************************************************)
(* What the lines of an output report, read off the lines themselves.      *)
(***************************************************************************)
Reports(l) == l.kind \in {"report", "well"}

LineKey(l) ==
    IF l.kind = "report" THEN l.cls \o <<".">> \o l.meth
    ELSE <<"M","e","a","s","u","r","e","m","e","n","t","s",".","t","e","s","t","I","n","s","e","r","t">>

LineNum(l) == IF l.kind = "report" THEN l.num ELSE <<"0", ".", "0", "0", "3">>

ReportedKeys(ls) == {LineKey(ls[i]) : i \in {j \in 1..Len(ls) : Reports(ls[j])}}

LastReport(ls, k) ==
    CHOOSE i \in 1..Len(ls) :
        /\ Reports(ls[i]) /\ LineKey(ls[i]) = k
        /\ \A j \in (i + 1)..Len(ls) : ~(Reports(ls[j]) /\ LineKey(ls[j]) = k)

RECURSIVE FirstSeen(_, _)
FirstSeen(ls, acc) ==
    IF ls = <<>> THEN acc
    ELSE FirstSeen(Tail(ls),
                   IF Reports(Head(ls)) /\ LineKey(Head(ls)) \notin Range(acc)
                   THEN Append(acc, LineKey(Head(ls))) ELSE acc)

Last(s) == s[Len(s)]

\* C4: for every input text parse_results returns a mapping whose keys are
\* exactly the "<class>.<method>" names of the matches and whose value for a
\* key is the number of the last match with that class and method; no error.
C4_LastMatchWins ==
    pc # "parse" =>
        /\ pc = "now"
        /\ Keys(results) = ReportedKeys(lines)
        /\ Len(results) = Cardinality(ReportedKeys(lines))
        /\ \A k \in ReportedKeys(lines) :
             Get(results, k, None) = Float(LineNum(lines[LastReport(lines, k)]))

\* C5 as stated: the line of scenario A as the spec prints it yields
\* {"TendrilTreeTests.testInsert": 0.003}.
C5_ScenarioAPrinted ==
    (/\ pc # "parse"
     /\ lines # <<>>
     /\ \A i \in 1..Len(lines) : lines[i].kind = "printed")
    => /\ pc = "now"
       /\ results = <<[k |-> <<"T","e","n","d","r","i","l","T","r","e","e","T","e","s","t","s",".","t","e","s","t","I","n","s","e","r","t">>,
                       v |-> [t |-> "float", m |-> 3, e |-> 3]]>>

ScenarioLines(ls) == \A i \in 1..Len(ls) : ls[i].kind \in {"printed", "well", "noise"}

\* C5 amended: the line as printed (no space-separated method name, no quote
\* after the bracket) matches nothing; the line with module, class, method
\* and the closing ]' yields {"Measurements.testInsert": 0.003}.
C5_ScenarioAWellFormed ==
    (pc # "parse" /\ ScenarioLines(lines)) =>
        /\ pc = "now"
        /\ results =
             IF \E i \in 1..Len(lines) : lines[i].kind = "well"
             THEN <<[k |-> <<"M","e","a","s","u","r","e","m","e","n","t","s",".","t","e","s","t","I","n","s","e","r","t">>,
                     v |-> [t |-> "float", m |-> 3, e |-> 3]]>>
             ELSE <<>>

C5_Witness ==
    /\ pc = "now"
    /\ Len(lines) = 2
    /\ lines[1].kind = "printed"
    /\ lines[2].kind = "well"
    /\ Len(results) = 1
    /\ results[1].v = [t |-> "float", m |-> 3, e |-> 3]

\* C6: every string the number group can capture is a well-formed decimal,
\* so parse_results raises no error for any input text.
C6_NeverRaises == pc # "aborted"

\* C7: a failed revision lookup gives "unknown", never ends the run, and the
\* row the run writes has git_sha equal to "unknown".
C7_LookupFailure ==
    (lookup \notin {"none", "ok"}) =>
        /\ sha = unknown
        /\ pc # "aborted"
        /\ pc = "done" =>
             /\ Len(file.recs) = Len(before.recs) + (IF before.exists THEN 1 ELSE 2)
             /\ Len(Last(file.recs)) >= 2
             /\ Last(file.recs)[2] = unknown
             /\ printed = <<row>>

C7_Witness ==
    /\ pc = "done"
    /\ lookup = "no_git"
    /\ before.exists
    /\ Len(file.recs) = 3
    /\ file.recs[3][2] = unknown
    /\ Len(file.recs[3]) = 3

\* C8: the header list is date, git_sha and then the measurement keys in the
\* order each was first seen, without duplicates; the keys of the row are
\* the header names; date and git_sha hold the timestamp and the revision.
C8_HeaderOrder ==
    pc \in {"write", "writing", "print", "done"} =>
        /\ headers = <<KeyDate, KeyGitSha>> \o FirstSeen(lines, <<>>)
        /\ Cardinality(Range(headers)) = Len(headers)
        /\ Keys(row) = Range(headers)
        /\ Len(row) = Len(headers)
        /\ Get(row, KeyDate, None) = Str(now)
        /\ Get(row, KeyGitSha, None) = Str(sha)
        /\ now \in Timestamps
        /\ (\A i \in 1..Len(lines) : ~Reports(lines[i])) =>
               /\ headers = <<KeyDate, KeyGitSha>>
               /\ Keys(row) = {KeyDate, KeyGitSha}

C8_Witness ==
    /\ pc = "done"
    /\ Len(lines) = 3
    /\ \A i \in 1..3 : Reports(lines[i])
    /\ LineKey(lines[1]) = LineKey(lines[3])
    /\ LineKey(lines[1]) # LineKey(lines[2])
    /\ headers = <<KeyDate, KeyGitSha, LineKey(lines[1]), LineKey(lines[2])>>

\* C10: a failure of step 1 or step 2 ends the run: the writer is never
\* called, the file is as it was before the run, nothing is printed.
C10_FailureLeavesFile ==
    /\ pc = "aborted" => (file = before /\ printed = <<>> /\ w[1] = IdleW)
    /\ pc \notin {"run_tests", "parse", "aborted"} =>
           \A i \in 1..Len(lines) :
               Reports(lines[i]) =>
                   /\ Len(SelectSeq(LineNum(lines[i]), IsDot)) <= 1
                   /\ Len(SelectSeq(LineNum(lines[i]), IsDigit)) >= 1

C10_Witness ==
    /\ pc = "aborted"
    /\ lines # <<>>
    /\ before = EarlierFile
    /\ file = EarlierFile

(***************************************************************************)
(* Claims about write_csv_row.                                             *)
(***************************************************************************)
Finished(p) == w[p].pc \in {"returned", "raised"}

WithinHeaders(c) == Keys(c.row) \subseteq Range(c.headers)

RowOfCall(c) == DataRow(c.row, c.headers)

RowsOf(calls) == [i \in 1..Len(calls) |-> RowOfCall(calls[i])]

FirstHeader ==
    IF ~before.exists /\ log # <<>> THEN <<HeaderRow(log[1].headers)>> ELSE <<>>

\* C1 as stated: every call appends exactly one data row, and only a call
\* that finds no file writes a header, so after n calls on a missing path
\* the file is the first call's header followed by n data rows.
C1_HeaderOnceRowPerCall ==
    (Finished(1) \/ w[1].pc = "idle") =>
        file.recs = before.recs \o FirstHeader \o RowsOf(log)

\* C1 amended: as stated for the calls whose row has no key outside the
\* header list; a call whose row has such a key appends no data row (it
\* still writes the header when the path did not exist).
C1_HeaderOnceRowPerGoodCall ==
    (Finished(1) \/ w[1].pc = "idle") =>
        /\ file.recs = before.recs \o FirstHeader
                         \o RowsOf(SelectSeq(log, WithinHeaders))
        /\ file.exists = (before.exists \/ log # <<>>)

C1_Witness ==
    /\ Finished(1)
    /\ ~before.exists
    /\ Len(log) = 2
    /\ WithinHeaders(log[1]) /\ WithinHeaders(log[2])
    /\ log[1].headers # log[2].headers
    /\ Len(file.recs) = 3
    /\ file.recs[1] = log[1].headers

\* C2 as stated: a row key that is not in the header list is dropped
\* silently; the call completes and appends one data row.
C2_ExtraKeyDropped ==
    (Finished(1) /\ ~(Keys(w[1].row) \subseteq Range(w[1].headers))) =>
        /\ w[1].pc = "returned"
        /\ file.recs # <<>>
        /\ Last(file.recs) = DataRow(w[1].row, w[1].headers)

\* C2 amended: a row key that is not in the header list makes writerow
\* raise ValueError; the call appends no data row, and writes only the
\* header line when the path did not exist.
C2_ExtraKeyRaises ==
    [][\A p \in Procs :
         (WriteRows(p) /\ ~(Keys(w[p].row) \subseteq Range(w[p].headers))) =>
             /\ w'[p].pc = "raised"
             /\ file'.recs = file.recs \o
                  (IF w[p].file_exists THEN <<>> ELSE <<w[p].headers>>)]_vars

C2_Witness ==
    /\ w[1].pc = "raised"
    /\ ~(Keys(w[1].row) \subseteq Range(w[1].headers))
    /\ ~before.exists
    /\ Len(log) = 1
    /\ file.recs = <<w[1].headers>>

\* the text csv writes for the values of the rows above
TextOf(v) == IF v.t = "str" THEN v.s ELSE <<"0", ".", "3">>

\* C3: the data row has one field per header name, in header order; field i
\* is the row's value for header i, and empty when the row has no such key.
C3_FieldsFollowHeaders ==
    [][\A p \in Procs :
         (WriteRows(p) /\ w'[p].pc = "returned") =>
             LET rec == Last(file'.recs)
                 hs  == w[p].headers
             IN  /\ Len(file'.recs) =
                      Len(file.recs) + (IF w[p].file_exists THEN 1 ELSE 2)
                 /\ Len(rec) = Len(hs)
                 /\ \A i \in 1..Len(hs) :
                      rec[i] = IF \E j \in 1..Len(w[p].row) : w[p].row[j].k = hs[i]
                               THEN TextOf(w[p].row[CHOOSE j \in 1..Len(w[p].row) :
                                                      w[p].row[j].k = hs[i]].v)
                               ELSE <<>>]_vars

C3_Witness ==
    /\ w[1].pc = "returned"
    /\ w[1].headers = <<<<"b">>, <<"a">>>>
    /\ Keys(w[1].row) = {<<"a">>}
    /\ Get(w[1].row, <<"a">>, None).t = "float"
    /\ Last(file.recs) = <<<<>>, <<"0", ".", "3">>>>

\* C9: two invocations on one missing path can both find the file absent,
\* and then each writes its header line: the file holds two header lines.
C9_BothWriteHeader ==
    (Finished(1) /\ Finished(2) /\ ~w[1].file_exists /\ ~w[2].file_exists) =>
        LET wr(p) == <<w[p].headers>> \o
                     (IF Keys(w[p].row) \subseteq Range(w[p].headers)
                      THEN <<DataRow(w[p].row, w[p].headers)>> ELSE <<>>)
        IN  file.recs \in {wr(1) \o wr(2), wr(2) \o wr(1)}

C9_Witness ==
    /\ Finished(1) /\ Finished(2)
    /\ ~w[1].file_exists /\ ~w[2].file_exists
    /\ Len(file.recs) = 4
    /\ file.recs[1] = <<<<"a">>, <<"b">>>>
    /\ file.recs[3] = <<<<"a">>, <<"b">>>>

====
